---- MODULE Spec2Model ----
(***************************************************************************)
(* The xray resource tree of k9s (package xray, tree_node.go): TreeNode,   *)
(* NodeSpec, the Spec/Flatten/Hydrate codec, Sort, Diff and Filter.        *)
(*                                                                         *)
(* A *TreeNode is an index into the heap `nodes` (0 is the nil pointer).   *)
(* A Go string is the sequence of its bytes, so that strings.Join and      *)
(* strings.Split are computed and not assumed to be inverse to each other. *)
(***************************************************************************)
EXTENDS Integers, Sequences, FiniteSets, TLC

VARIABLES nodes, misused, call, refs, pc, t, f, g, q

vars == <<nodes, misused, call, refs, pc, t, f, g, q>>

----------------------------------------------------------------------------
(* Bounds of the model *)

\* most TreeNodes the builder specification allocates
MaxNodes == 4
\* most NodeSpecs in the slice handed to the first Hydrate
MaxSpecs == 2
\* most segments in a chain of a NodeSpec
MaxSegs == 3

----------------------------------------------------------------------------
(* Strings as byte sequences *)

Str_g == <<103>>
Str_h == <<104>>
Str_a2 == <<97, 50>>
Str_a10 == <<97, 49, 48>>
Empty == <<>>

\* PathSeparator = "::"
PathSeparator == <<58, 58>>
\* StatusKey = "status": a map key, never joined or split
StatusKey == "status"
\* OkStatus = "ok"
OkStatus == <<111, 107>>
\* ToastStatus = "toast"
ToastStatus == <<116, 111, 97, 115, 116>>

\* the nil *TreeNode
Nil == 0

RECURSIVE Join(_, _)
\* strings.Join(elems, sep)
Join(elems, sep) ==
    IF Len(elems) = 0 THEN Empty
    ELSE IF Len(elems) = 1 THEN elems[1]
    ELSE elems[1] \o sep \o Join(Tail(elems), sep)

\* strings.Index(s, sep), 1-based; 0 when sep does not occur
Index(s, sep) ==
    LET hits == {i \in 1..(Len(s) - Len(sep) + 1) :
                    SubSeq(s, i, i + Len(sep) - 1) = sep}
    IN IF hits = {} THEN 0 ELSE CHOOSE i \in hits : \A j \in hits : i <= j

RECURSIVE Split(_, _)
\* strings.Split(s, sep) for a non-empty sep: cut at the leftmost
\* occurrences, which do not overlap; Split("", sep) is [""]
Split(s, sep) ==
    LET i == Index(s, sep)
    IN IF i = 0 THEN <<s>>
       ELSE <<SubSeq(s, 1, i - 1)>> \o Split(SubSeq(s, i + Len(sep), Len(s)), sep)

\* strings.Contains(s, sub)
Contains(s, sub) == Index(s, sub) # 0 \/ sub = Empty

isdigit(b) == 48 <= b /\ b <= 57

\* the byte-wise order of two strings (Go's < on strings)
RECURSIVE StrLess(_, _)
StrLess(s1, s2) ==
    IF Len(s2) = 0 THEN FALSE
    ELSE IF Len(s1) = 0 THEN TRUE
    ELSE IF s1[1] # s2[1] THEN s1[1] < s2[1]
    ELSE StrLess(Tail(s1), Tail(s2))

RECURSIVE EatWhile(_, _, _)
\* the first index >= i at which s has no byte of the set `eat`
EatWhile(s, i, eat) ==
    IF i <= Len(s) /\ s[i] \in eat THEN EatWhile(s, i + 1, eat) ELSE i

RECURSIVE NaturalLessFrom(_, _, _, _)
\* the loop of sortorder.NaturalLess, idx1 and idx2 1-based
NaturalLessFrom(str1, str2, idx1, idx2) ==
    IF ~(idx1 <= Len(str1) /\ idx2 <= Len(str2)) THEN Len(str1) < Len(str2)
    ELSE
      LET c1 == str1[idx1]
          c2 == str2[idx2]
          dig1 == isdigit(c1)
          dig2 == isdigit(c2)
      IN IF dig1 # dig2 THEN dig1
         ELSE IF ~dig1 THEN
            IF c1 # c2 THEN c1 < c2
            ELSE NaturalLessFrom(str1, str2, idx1 + 1, idx2 + 1)
         ELSE
            LET nonZero1 == EatWhile(str1, idx1, {48})
                nonZero2 == EatWhile(str2, idx2, {48})
                end1 == EatWhile(str1, nonZero1, 48..57)
                end2 == EatWhile(str2, nonZero2, 48..57)
                nr1 == SubSeq(str1, nonZero1, end1 - 1)
                nr2 == SubSeq(str2, nonZero2, end2 - 1)
            IN IF Len(nr1) # Len(nr2) THEN Len(nr1) < Len(nr2)
               ELSE IF nr1 # nr2 THEN StrLess(nr1, nr2)
               ELSE IF nonZero1 # nonZero2 THEN nonZero1 < nonZero2
               ELSE NaturalLessFrom(str1, str2, end1, end2)

\* sortorder.NaturalLess(str1, str2)
NaturalLess(str1, str2) == NaturalLessFrom(str1, str2, 1, 1)

----------------------------------------------------------------------------
(* TreeNode *)

\* NewTreeNode(gvr, id): the node value; Extras is {status: ok}
NewTreeNode(gvr, id) ==
    [GVR |-> gvr, ID |-> id, Children |-> <<>>, Parent |-> Nil,
     Extras |-> (StatusKey :> OkStatus)]

\* the heap h with a freshly allocated node; its pointer is Len(h) + 1
Alloc(h, node) == Append(h, node)

\* t.Extras[key]: the zero value "" for a key the map does not hold
ExtrasGet(h, n, key) ==
    IF key \in DOMAIN h[n].Extras THEN h[n].Extras[key] ELSE Empty

\* t.Extras[key] = val
ExtrasSet(h, n, key, val) ==
    [h EXCEPT ![n].Extras =
        [k \in (DOMAIN h[n].Extras) \cup {key} |->
            IF k = key THEN val ELSE h[n].Extras[k]]]

CountChildren(h, n) == Len(h[n].Children)

IsLeaf(h, n) == CountChildren(h, n) = 0

IsRoot(h, n) == h[n].Parent = Nil

Blank(h, n) == h[n].GVR = Empty /\ h[n].ID = Empty

\* Add without c.Parent = t
AddNoParent(h, n, c) ==
    [h EXCEPT ![n].Children = Append(h[n].Children, c)]

\* t.Add(c)
Add(h, n, c) ==
    [h EXCEPT ![c].Parent = n, ![n].Children = Append(h[n].Children, c)]

\* t.Clear()
Clear(h, n) == [h EXCEPT ![n].Children = <<>>]

RECURSIVE Level(_, _)
\* t.Level(): the parent hops up to the root
Level(h, n) == IF h[n].Parent = Nil THEN 0 ELSE 1 + Level(h, h[n].Parent)

RECURSIVE Root(_, _)
\* t.Root()
Root(h, n) == IF h[n].Parent = Nil THEN n ELSE Root(h, h[n].Parent)

RECURSIVE Find(_, _, _, _), FindIn(_, _, _, _, _)
\* t.Find(gvr, id): the node itself, else the first hit depth-first
Find(h, n, gvr, id) ==
    IF h[n].GVR = gvr /\ h[n].ID = id THEN n
    ELSE FindIn(h, h[n].Children, 1, gvr, id)
FindIn(h, cs, i, gvr, id) ==
    IF i > Len(cs) THEN Nil
    ELSE LET v == Find(h, cs[i], gvr, id)
         IN IF v # Nil THEN v ELSE FindIn(h, cs, i + 1, gvr, id)

RECURSIVE Lineage(_, _)
\* the nodes from n up to its root, n first (the loop of Spec)
Lineage(h, n) ==
    IF n = Nil THEN <<>> ELSE <<n>> \o Lineage(h, h[n].Parent)

\* t.Spec()
SpecOf(h, n) ==
    LET up == Lineage(h, n)
    IN [GVR |-> Join([i \in 1..Len(up) |-> h[up[i]].GVR], PathSeparator),
        Path |-> Join([i \in 1..Len(up) |-> h[up[i]].ID], PathSeparator),
        Status |-> Join([i \in 1..Len(up) |-> ExtrasGet(h, up[i], StatusKey)],
                        PathSeparator)]

RECURSIVE Flatten(_, _), FlattenIn(_, _, _)
\* t.Flatten(): the loop over t.Children
Flatten(h, n) == FlattenIn(h, h[n].Children, 1)
FlattenIn(h, cs, i) ==
    IF i > Len(cs) THEN <<>>
    ELSE (IF IsLeaf(h, cs[i]) THEN <<SpecOf(h, cs[i])>> ELSE Flatten(h, cs[i]))
         \o FlattenIn(h, cs, i + 1)

RECURSIVE Diff(_, _, _), DiffIn(_, _, _, _)
\* Diff without the comparison of Extras
DiffNoExtras(h, n, d) ==
    IF n = Nil THEN [panic |-> FALSE, val |-> d # Nil]
    ELSE IF d = Nil THEN [panic |-> TRUE, val |-> FALSE]
    ELSE IF CountChildren(h, n) # CountChildren(h, d)
        THEN [panic |-> FALSE, val |-> TRUE]
    ELSE IF h[n].ID # h[d].ID \/ h[n].GVR # h[d].GVR
        THEN [panic |-> FALSE, val |-> TRUE]
    ELSE DiffIn(h, n, d, 1)
\* t.Diff(d): [panic |-> FALSE, val |-> the bool returned], or a panic
\* (the nil pointer dereference of d.CountChildren() on a nil d)
Diff(h, n, d) ==
    IF n = Nil THEN [panic |-> FALSE, val |-> d # Nil]
    ELSE IF d = Nil THEN [panic |-> TRUE, val |-> FALSE]
    ELSE IF CountChildren(h, n) # CountChildren(h, d)
        THEN [panic |-> FALSE, val |-> TRUE]
    ELSE IF h[n].ID # h[d].ID \/ h[n].GVR # h[d].GVR \/ h[n].Extras # h[d].Extras
        THEN [panic |-> FALSE, val |-> TRUE]
    ELSE DiffIn(h, n, d, 1)
DiffIn(h, n, d, i) ==
    IF i > Len(h[n].Children) THEN [panic |-> FALSE, val |-> FALSE]
    ELSE LET r == Diff(h, h[n].Children[i], h[d].Children[i])
         IN IF r.panic \/ r.val THEN r ELSE DiffIn(h, n, d, i + 1)

\* Childrens.Less(i, j) on the nodes a and b
Less(h, a, b) == NaturalLess(h[a].ID, h[b].ID)

\* the orders a slice can be left in by sort.Sort, which sorts by Less and is
\* not guaranteed to be stable: every permutation that Less does not contradict
SortSort(h, cs) ==
    LET n == Len(cs)
        bij == {p \in [1..n -> 1..n] : \A i, j \in 1..n : i # j => p[i] # p[j]}
        perms == {[i \in 1..n |-> cs[p[i]]] : p \in bij}
    IN {s \in perms : \A i, j \in 1..n : i < j => ~Less(h, s[j], s[i])}

RECURSIVE Sort(_, _), SortIn(_, _, _)
\* t.Sort(): the heaps it can leave
Sort(h, n) ==
    UNION {SortIn([h EXCEPT ![n].Children = s], s, 1) : s \in SortSort(h, h[n].Children)}
SortIn(h, cs, i) ==
    IF i > Len(cs) THEN {h}
    ELSE UNION {SortIn(h2, cs, i + 1) : h2 \in Sort(h, cs[i])}

RECURSIVE HydrateRef(_, _, _, _, _, _)
\* the inner loop of Hydrate for one ref, i running from len(paths)-1 down
\* (here from Len(paths) down to 1); an index past the end of gvrs or of
\* statuses is a runtime panic
HydrateRef(h, nav, gvrs, paths, statuses, i) ==
    IF i = 0 THEN [panic |-> FALSE, heap |-> h]
    ELSE IF i > Len(gvrs) \/ i > Len(statuses) THEN [panic |-> TRUE, heap |-> h]
    ELSE IF Blank(h, nav) THEN
        HydrateRef(ExtrasSet([h EXCEPT ![nav].GVR = gvrs[i], ![nav].ID = paths[i]],
                             nav, StatusKey, statuses[i]),
                   nav, gvrs, paths, statuses, i - 1)
    ELSE
        LET n == Find(h, nav, gvrs[i], paths[i])
            c == Len(h) + 1
            h1 == ExtrasSet(Alloc(h, NewTreeNode(gvrs[i], paths[i])),
                            c, StatusKey, statuses[i])
        IN IF n = Nil
           THEN HydrateRef(Add(h1, nav, c), c, gvrs, paths, statuses, i - 1)
           ELSE HydrateRef(h, n, gvrs, paths, statuses, i - 1)

RECURSIVE HydrateRefs(_, _, _, _)
\* the outer loop of Hydrate over refs[k..]
HydrateRefs(h, root, rs, k) ==
    IF k > Len(rs) THEN [panic |-> FALSE, heap |-> h, root |-> root]
    ELSE LET paths == Split(rs[k].Path, PathSeparator)
             r == HydrateRef(h, root, Split(rs[k].GVR, PathSeparator), paths,
                             Split(rs[k].Status, PathSeparator), Len(paths))
         IN IF r.panic THEN [panic |-> TRUE, heap |-> h, root |-> Nil]
            ELSE HydrateRefs(r.heap, root, rs, k + 1)

\* Hydrate(refs): the heap with the new tree and its root, or a panic
Hydrate(h, rs) ==
    HydrateRefs(Alloc(h, NewTreeNode(Empty, Empty)), Len(h) + 1, rs, 1)

\* strings.HasPrefix(s, prefix)
HasPrefix(s, prefix) == Len(prefix) <= Len(s) /\ SubSeq(s, 1, Len(prefix)) = prefix

\* the filter funcs func(q, path string) bool handed to Filter, by name:
\* substring search and prefix search
Matches(filter, query, path) ==
    IF filter = "contains" THEN Contains(path, query) ELSE HasPrefix(path, query)

\* t.Filter(q, filter): root is Nil when nothing matches
Filter(h, n, query, filter) ==
    LET specs == Flatten(h, n)
        matches == SelectSeq(specs, LAMBDA s : Matches(filter, query, s.Path \o s.Status))
    IN IF Len(matches) = 0 THEN [panic |-> FALSE, heap |-> h, root |-> Nil]
       ELSE Hydrate(h, matches)

----------------------------------------------------------------------------
(* The builder: callers constructing and editing trees, then sorting and    *)
(* diffing them                                                            *)

\* the (gvr, id) pairs handed to NewTreeNode
Pairs == {<<Str_g, Str_a2>>, <<Str_g, Str_a10>>, <<Str_h, Str_a2>>}

NoCall == [op |-> "none"]

\* the query and the filter func of the last Filter
NoQuery == [query |-> Empty, filter |-> "none"]

Idle == /\ refs = <<>>
        /\ pc = "idle"
        /\ t = Nil /\ f = Nil /\ g = Nil
        /\ q = NoQuery

Init == /\ nodes = <<>>
        /\ misused = FALSE
        /\ call = NoCall
        /\ Idle

\* a child handed to Add that already has a Parent, or that is the root of
\* the tree it is added to
Misuse(h, n, c) == h[c].Parent # Nil \/ Root(h, n) = c

NewTreeNodeCall(gvr, id) ==
    /\ ~misused
    /\ Len(nodes) < MaxNodes
    /\ nodes' = Alloc(nodes, NewTreeNode(gvr, id))
    /\ call' = NoCall
    /\ UNCHANGED <<misused, refs, pc, t, f, g, q>>

AddCall(n, c) ==
    /\ ~misused
    /\ nodes' = Add(nodes, n, c)
    /\ misused' = Misuse(nodes, n, c)
    /\ call' = NoCall
    /\ UNCHANGED <<refs, pc, t, f, g, q>>

ClearCall(n) ==
    /\ ~misused
    /\ nodes' = Clear(nodes, n)
    /\ call' = NoCall
    /\ UNCHANGED <<misused, refs, pc, t, f, g, q>>

SetStatusCall(n, val) ==
    /\ ~misused
    /\ nodes' = ExtrasSet(nodes, n, StatusKey, val)
    /\ call' = NoCall
    /\ UNCHANGED <<misused, refs, pc, t, f, g, q>>

DiffCall(a, b) ==
    /\ ~misused
    /\ call' = [op |-> "Diff", a |-> a, b |-> b, ret |-> Diff(nodes, a, b)]
    /\ UNCHANGED <<nodes, misused, refs, pc, t, f, g, q>>

SortCall(n) ==
    /\ ~misused
    /\ nodes' \in Sort(nodes, n)
    /\ call' = [op |-> "Sort", n |-> n, old |-> nodes]
    /\ UNCHANGED <<misused, refs, t, f, g, q>>

\* the tree API used freely: any node may be handed to Add
Next ==
    \/ NewTreeNodeCall(Str_g, Str_a2)
    \/ \E n, c \in 1..Len(nodes) : AddCall(n, c)
    \/ \E n \in 1..Len(nodes) : ClearCall(n)

Spec == Init /\ [][Next]_vars

\* c := NewTreeNode(gvr, id); n.Add(c): a fresh child, the way Hydrate
\* grows a tree
AddChildCall(n, gvr, id) ==
    /\ ~misused
    /\ Len(nodes) < MaxNodes
    /\ nodes' = Add(Alloc(nodes, NewTreeNode(gvr, id)), n, Len(nodes) + 1)
    /\ call' = NoCall
    /\ UNCHANGED <<misused, refs, pc, t, f, g, q>>

\* the roots of the trees in the heap
Roots(h) == {n \in 1..Len(h) : IsRoot(h, n)}

\* two trees (the displayed one and the new one) grown child by child, one
\* status update at most, and Diff of root against root or nil
NextDiff ==
    \/ \E p \in Pairs : Cardinality(Roots(nodes)) < 2 /\ NewTreeNodeCall(p[1], p[2])
    \/ \E p \in Pairs : \E n \in 1..Len(nodes) : AddChildCall(n, p[1], p[2])
    \/ \E n \in 1..Len(nodes) :
            /\ \A m \in 1..Len(nodes) : ExtrasGet(nodes, m, StatusKey) = OkStatus
            /\ SetStatusCall(n, ToastStatus)
    \/ \E a, b \in {Nil} \cup Roots(nodes) : DiffCall(a, b)

SpecDiff == Init /\ [][NextDiff]_vars

----------------------------------------------------------------------------
(* The codec: Hydrate a slice of NodeSpecs, then Flatten, Filter, Sort and  *)
(* Diff the trees                                                          *)

\* the (gvr, id, status) values a chain segment is drawn from; the first is
\* the blank segment
Segs == {<<Empty, Empty, OkStatus>>, <<Str_g, Str_a2, OkStatus>>,
         <<Str_g, Str_a10, ToastStatus>>, <<Str_h, Str_a2, OkStatus>>}

\* the sequences over S of the lengths lo..hi
SeqsOf(S, lo, hi) == UNION {[1..n -> S] : n \in lo..hi}

\* the NodeSpec whose chains join the segments ss, leaf first
SpecFrom(ss) ==
    [GVR |-> Join([i \in 1..Len(ss) |-> ss[i][1]], PathSeparator),
     Path |-> Join([i \in 1..Len(ss) |-> ss[i][2]], PathSeparator),
     Status |-> Join([i \in 1..Len(ss) |-> ss[i][3]], PathSeparator)]

\* specs whose three chains have the same number of segments
WellFormedSpecs == {SpecFrom(ss) : ss \in SeqsOf(Segs, 1, MaxSegs)}

\* specs whose chains have i, j and k segments, not all the same number
MalformedSpecs ==
    {[GVR |-> Join([x \in 1..i |-> Str_g], PathSeparator),
      Path |-> Join([x \in 1..j |-> Str_a2], PathSeparator),
      Status |-> Join([x \in 1..k |-> OkStatus], PathSeparator)] :
        <<i, j, k>> \in {c \in (1..MaxSegs) \X (1..MaxSegs) \X (1..MaxSegs) :
                            ~(c[1] = c[2] /\ c[2] = c[3])}}

\* the queries handed to Filter: "" (every leaf matches), "a10" and "ok"
Queries == {Empty, Str_a10, OkStatus}

\* the filter funcs handed to Filter
Filters == {"contains", "prefix"}

InitCodec ==
    /\ nodes = <<>>
    /\ misused = FALSE
    /\ call = NoCall
    /\ refs \in SeqsOf(WellFormedSpecs \cup MalformedSpecs, 0, MaxSpecs)
    /\ pc = "start"
    /\ t = Nil /\ f = Nil /\ g = Nil
    /\ q = NoQuery

\* T := Hydrate(refs)
HydrateCall ==
    /\ pc = "start"
    /\ LET r == Hydrate(nodes, refs)
       IN /\ nodes' = r.heap
          /\ t' = r.root
          /\ pc' = IF r.panic THEN "panic" ELSE "built"
          /\ call' = [op |-> "Hydrate", outcome |-> IF r.panic THEN "panic" ELSE "ok"]
    /\ UNCHANGED <<misused, refs, f, g, q>>

\* n.Flatten() on a node n of T
FlattenCall(n) ==
    /\ pc = "built"
    /\ call' = [op |-> "Flatten", n |-> n, ret |-> Flatten(nodes, n)]
    /\ pc' = "flat"
    /\ UNCHANGED <<nodes, misused, refs, t, f, g, q>>

\* G := Hydrate(T.Flatten())
RehydrateCall ==
    /\ pc = "flat" /\ call.n = t
    /\ LET r == Hydrate(nodes, call.ret)
       IN /\ nodes' = r.heap
          /\ g' = r.root
          /\ pc' = IF r.panic THEN "panic" ELSE "rebuilt"
          /\ call' = [op |-> "Hydrate", outcome |-> IF r.panic THEN "panic" ELSE "ok"]
    /\ UNCHANGED <<misused, refs, t, f, q>>

\* F := T.Filter(query, filter)
FilterCall(query, filter) ==
    /\ pc = "built"
    /\ LET r == Filter(nodes, t, query, filter)
       IN /\ nodes' = r.heap
          /\ f' = r.root
          /\ pc' = IF r.panic THEN "panic" ELSE "filtered"
          /\ call' = [op |-> "Filter", outcome |-> IF r.panic THEN "panic" ELSE "ok"]
    /\ q' = [query |-> query, filter |-> filter]
    /\ UNCHANGED <<misused, refs, t, g>>

\* G := F.Filter(query, filter), the same query and filter again on a
\* present F
RefilterCall ==
    /\ pc = "filtered" /\ f # Nil
    /\ LET r == Filter(nodes, f, q.query, q.filter)
       IN /\ nodes' = r.heap
          /\ g' = r.root
          /\ pc' = IF r.panic THEN "panic" ELSE "refiltered"
          /\ call' = [op |-> "Filter", outcome |-> IF r.panic THEN "panic" ELSE "ok"]
    /\ UNCHANGED <<misused, refs, t, f, q>>

\* n.Sort() between the phases from and to
SortStep(n, from, to) ==
    /\ pc = from /\ n # Nil
    /\ pc' = to
    /\ SortCall(n)

\* n.Diff(d) between the phases from and to
DiffStep(n, d, from, to) ==
    /\ pc = from
    /\ pc' = to
    /\ call' = [op |-> "Diff", a |-> n, b |-> d, ret |-> Diff(nodes, n, d)]
    /\ UNCHANGED <<nodes, misused, refs, t, f, g, q>>

NextCodec ==
    \/ HydrateCall
    \/ \E n \in 1..Len(nodes) : FlattenCall(n)
    \/ RehydrateCall
    \/ SortStep(g, "rebuilt", "sortedG")
    \/ SortStep(t, "sortedG", "sorted")
    \/ DiffStep(g, t, "sorted", "diffed")
    \/ \E query \in Queries : \E filter \in Filters : FilterCall(query, filter)
    \/ RefilterCall
    \/ SortStep(g, "refiltered", "fsortedG")
    \/ SortStep(f, "fsortedG", "fsorted")
    \/ DiffStep(g, f, "fsorted", "fdiffed")

SpecCodec == InitCodec /\ [][NextCodec]_vars

----------------------------------------------------------------------------
(* The tree structure (C5) *)

Ptrs(h) == 1..Len(h)

Kids(h, n) == {h[n].Children[i] : i \in DOMAIN h[n].Children}

RECURSIVE ReachIn(_, _, _)
ReachIn(h, S, k) ==
    IF k = 0 THEN S ELSE ReachIn(h, S \cup UNION {Kids(h, m) : m \in S}, k - 1)

\* the nodes below n in the Children graph
Below(h, n) == ReachIn(h, Kids(h, n), Len(h))

Acyclic(h) == \A n \in Ptrs(h) : n \notin Below(h, n)

\* how often c stands in p.Children
Occ(h, p, c) == Cardinality({i \in DOMAIN h[p].Children : h[p].Children[i] = c})

\* C5 as stated: after any sequence of NewTreeNode, Add and Clear calls the
\* Children graph is acyclic and every node whose Parent is set stands exactly
\* once in the Children of that Parent and in the Children of no other node.
C5_AnySequence ==
    /\ Acyclic(nodes)
    /\ \A c \in Ptrs(nodes) : nodes[c].Parent # Nil =>
          \A p \in Ptrs(nodes) :
              Occ(nodes, p, c) = (IF p = nodes[c].Parent THEN 1 ELSE 0)

\* C5 amended: as long as every Add was handed a child that had no Parent and
\* was not the Root of the node it was added to, the Children graph is acyclic
\* and every node stands at most once in all the Children together, and then
\* in the Children of its Parent (after Clear the Parent of a dropped node
\* still names the node that dropped it).
C5_ProperUse ==
    ~misused =>
        /\ Acyclic(nodes)
        /\ \A c \in Ptrs(nodes) : \A p \in Ptrs(nodes) :
              Occ(nodes, p, c) > 0 => Occ(nodes, p, c) = 1 /\ nodes[c].Parent = p

\* a properly built tree of depth two beside a node that Clear has dropped
C5_Witness ==
    /\ ~misused
    /\ \E a, b, c \in Ptrs(nodes) :
          /\ Occ(nodes, a, b) = 1 /\ Occ(nodes, b, c) = 1
    /\ \E d \in Ptrs(nodes) :
          nodes[d].Parent # Nil /\ Occ(nodes, nodes[d].Parent, d) = 0

----------------------------------------------------------------------------
(* Diff (C2, C8) *)

RECURSIVE Positions(_, _)
\* the child-index paths of the tree at n, the empty path for n itself
Positions(h, n) ==
    {<<>>} \cup UNION {{<<i>> \o pth : pth \in Positions(h, h[n].Children[i])} :
                        i \in DOMAIN h[n].Children}

RECURSIVE NodeAt(_, _, _)
NodeAt(h, n, pth) ==
    IF pth = <<>> THEN n ELSE NodeAt(h, h[n].Children[Head(pth)], Tail(pth))

SameFields(h, x, y) ==
    h[x].ID = h[y].ID /\ h[x].GVR = h[y].GVR /\ h[x].Extras = h[y].Extras

\* same shape, and equal Identity, Type and Attributes position by position
SameTree(h, a, b) ==
    /\ Positions(h, a) = Positions(h, b)
    /\ \A pth \in Positions(h, a) : SameFields(h, NodeAt(h, a, pth), NodeAt(h, b, pth))

\* b is a with the status of the one node at some position changed
OneStatusChanged(h, a, b) ==
    /\ Positions(h, a) = Positions(h, b)
    /\ \E pth \in Positions(h, a) :
          /\ ExtrasGet(h, NodeAt(h, a, pth), StatusKey)
                # ExtrasGet(h, NodeAt(h, b, pth), StatusKey)
          /\ h[NodeAt(h, a, pth)].ID = h[NodeAt(h, b, pth)].ID
          /\ h[NodeAt(h, a, pth)].GVR = h[NodeAt(h, b, pth)].GVR
          /\ \A o \in Positions(h, a) \ {pth} :
                SameFields(h, NodeAt(h, a, o), NodeAt(h, b, o))

\* C2 as stated: Diff with exactly one absent operand returns true and does
\* not fault, in both argument orders; Diff(absent, absent) returns false.
C2_AbsentOperand ==
    call.op = "Diff" =>
        /\ (call.a = Nil) # (call.b = Nil) => ~call.ret.panic /\ call.ret.val = TRUE
        /\ call.a = Nil /\ call.b = Nil => ~call.ret.panic /\ call.ret.val = FALSE

\* C8: for two present trees Diff returns false exactly when they have the
\* same shape and equal Identity, Type and Attributes at every position; so
\* Diff(T, T) is false, and a tree that differs from T in the status of one
\* node only is reported different.
C8_DiffPresent ==
    call.op = "Diff" /\ call.a # Nil /\ call.b # Nil =>
        /\ ~call.ret.panic
        /\ call.ret.val = ~SameTree(nodes, call.a, call.b)
        /\ call.a = call.b => call.ret.val = FALSE
        /\ OneStatusChanged(nodes, call.a, call.b) => call.ret.val = TRUE

\* Diff of two distinct trees, each a root with a child, that differ in the
\* status of one node only
C8_Witness ==
    /\ call.op = "Diff" /\ call.a # Nil /\ call.b # Nil /\ call.a # call.b
    /\ CountChildren(nodes, call.a) = 1
    /\ OneStatusChanged(nodes, call.a, call.b)
    /\ call.ret.val = TRUE

----------------------------------------------------------------------------
(* The codec (C1, C3, C4, C6, C7, C9, C10) *)

\* the nodes of the tree at n
TreeNodes(h, n) == {n} \cup Below(h, n)

RECURSIVE LeavesOf(_, _), LeavesIn(_, _, _)
\* the childless nodes of the tree at n, n itself included, depth-first in
\* the order of the children
LeavesOf(h, n) == IF IsLeaf(h, n) THEN <<n>> ELSE LeavesIn(h, h[n].Children, 1)
LeavesIn(h, cs, i) ==
    IF i > Len(cs) THEN <<>> ELSE LeavesOf(h, cs[i]) \o LeavesIn(h, cs, i + 1)

\* the chains of a spec split into the same number of segments
WellFormed(ref) ==
    /\ Len(Split(ref.GVR, PathSeparator)) = Len(Split(ref.Path, PathSeparator))
    /\ Len(Split(ref.Status, PathSeparator)) = Len(Split(ref.Path, PathSeparator))

AllWellFormed(rs) == \A k \in DOMAIN rs : WellFormed(rs[k])

\* the specs of the leaves of the tree at n, and those the query matches
LeafSpecs(h, n) == {SpecOf(h, LeavesOf(h, n)[i]) : i \in DOMAIN LeavesOf(h, n)}
MatchingSpecs(h, n, qf) ==
    {sp \in LeafSpecs(h, n) : Matches(qf.filter, qf.query, sp.Path \o sp.Status)}

\* C1 as stated: for a tree T that Hydrate built from valid specs, a single
\* childless node included, Diff(Sort(Hydrate(Flatten(T))), Sort(T)) is false.
C1_RoundTrip ==
    pc = "diffed" /\ AllWellFormed(refs) =>
        ~call.ret.panic /\ call.ret.val = FALSE

\* C3 as stated: whenever Filter(T, q, matches) returns a present tree F,
\* Filter(F, q, matches) returns a present tree too, and Diff of the two, both
\* sorted, is false.
C3_FilterIdempotent ==
    /\ pc = "refiltered" => g # Nil
    /\ pc = "fdiffed" => ~call.ret.panic /\ call.ret.val = FALSE

\* C4 as stated: Hydrate of a spec whose chains split into different numbers
\* of segments ends in a MalformedSpecError, neither in a fault nor in a tree.
C4_MalformedSpec ==
    call.op = "Hydrate" /\ ~AllWellFormed(refs) =>
        call.outcome = "MalformedSpecError"

\* C6 as stated: Filter returns the absent result exactly when no leaf of T
\* matches, and else a tree whose leaves are exactly the matching leaves of T,
\* each with the lineage it had in T.
C6_FilterResult ==
    pc = "filtered" =>
        /\ (f = Nil) = (MatchingSpecs(nodes, t, q) = {})
        /\ f # Nil => LeafSpecs(nodes, f) = MatchingSpecs(nodes, t, q)

\* C7 as stated: Flatten(node) returns one NodeSpec per leaf reachable from
\* node, node itself included, depth-first in the order of the children, each
\* the Spec of its leaf with Level(leaf)+1 segments in every chain.
C7_FlattenLeaves ==
    call.op = "Flatten" =>
        LET leaves == LeavesOf(nodes, call.n)
        IN /\ call.ret = [i \in DOMAIN leaves |-> SpecOf(nodes, leaves[i])]
           /\ \A i \in DOMAIN call.ret :
                 /\ Len(Split(call.ret[i].GVR, PathSeparator)) = Level(nodes, leaves[i]) + 1
                 /\ Len(Split(call.ret[i].Path, PathSeparator)) = Level(nodes, leaves[i]) + 1
                 /\ Len(Split(call.ret[i].Status, PathSeparator)) = Level(nodes, leaves[i]) + 1

\* the position of the node c in the sequence cs
PosIn(cs, c) == CHOOSE i \in DOMAIN cs : cs[i] = c

\* C9 as stated: after Sort(node) every node of the subtree has its Children
\* in non-decreasing natural order of Identity, each Children a permutation of
\* what it was, and siblings whose identities compare equal in their old order.
C9_StableSort ==
    call.op = "Sort" =>
        \A m \in TreeNodes(call.old, call.n) :
            LET was == call.old[m].Children
                now == nodes[m].Children
            IN /\ \A i, j \in DOMAIN now : i < j => ~Less(nodes, now[j], now[i])
               /\ Len(now) = Len(was)
               /\ \A c \in Ptrs(nodes) : Occ(nodes, m, c) = Occ(call.old, m, c)
               /\ \A i, j \in DOMAIN was :
                     (i < j /\ ~Less(nodes, was[i], was[j]) /\ ~Less(nodes, was[j], was[i]))
                        => PosIn(now, was[i]) < PosIn(now, was[j])

\* C10 as stated: in the tree Hydrate returns for well-formed specs (blank
\* segments allowed) no node has two children with the same (Type, Identity).
C10_MergeOnMatch ==
    pc = "built" /\ AllWellFormed(refs) =>
        \A n \in TreeNodes(nodes, t) : \A i, j \in DOMAIN nodes[n].Children :
            i # j => \/ nodes[nodes[n].Children[i]].GVR # nodes[nodes[n].Children[j]].GVR
                     \/ nodes[nodes[n].Children[i]].ID # nodes[nodes[n].Children[j]].ID

====
